---- MODULE Spec2Model ----
(***************************************************************************)
(* Model of the encrypted backup / merge-import engine of ssh-key-manager  *)
(* (src/crypto/backup.rs, src/crypto/encrypt.rs, src/ssh/keys.rs).         *)
(*                                                                         *)
(* A file name is a sequence of tokens in which "." is a token of its own, *)
(* so that Path::with_extension and Path::file_stem are computed the way   *)
(* the standard library computes them.  A directory (the key store, or the *)
(* directory the exported keys live in) is a function from the names that  *)
(* exist in it to what is there.                                           *)
(***************************************************************************)
EXTENDS Integers, Sequences, FiniteSets, TLC

VARIABLES
    src,        \* the directory the exported keys live in
    store,      \* the key store BackupManager::import writes to (ssh_dir)
    backup,     \* the container file at backup_path / output_path
    exported,   \* the arguments of the export that wrote backup, or NoExport
    exportResult, \* what the last export returned: "none", "Ok" or the error
    pc,         \* position of the import call: idle, loop, done, failed
    opts,       \* ImportOptions and passphrase of the running import
    queue,      \* backup.keys still to be processed by the loop
    report,     \* the ImportReport under construction
    result,     \* what import returned: "none", "Ok" or the SkmError kind
    store0,     \* the key store as it was when the import was called
    last,       \* the latest iteration of the loop: its entry, the store and
                \* the report it started from, and what import_entry returned
    prev,       \* the import that returned before the running one was called:
                \* its options, its report and the store it started from
    app,        \* the App of the terminal interface (src/tui/app.rs)
    call        \* the latest call of the interface or of the key generator:
                \* what was called, the App and the directory it started
                \* from, and what it returned

vars == <<src, store, backup, exported, exportResult, pc, opts, queue, report, result, store0, last, prev, app, call>>

\* the variables of the backup engine, but for the key store
backupVars == <<src, backup, exported, exportResult, pc, opts, queue, report, result, store0, last, prev>>

---------------------------------------------------------------------------
(* Bounds of the model *)

\* longest key list handed to export
MaxKeys == 2

\* number of distinct seconds chrono::Local::now() can return during a run
MaxTime == 2

---------------------------------------------------------------------------
(* Program constants *)

BACKUP_VERSION == 1

\* 0o600
PrivateMode == 384

\* 0o644
PublicMode == 420

\* mode of a file fs::write creates: 0o666 masked by the usual umask 0o022
CreateMode == 420

---------------------------------------------------------------------------
(* Option<T> *)

None == <<>>

Some(x) == <<x>>

IsSome(o) == o # <<>>

Unwrap(o) == o[1]

---------------------------------------------------------------------------
(* Paths *)

\* positions of the dots that separate an extension: a leading dot does not
DotPositions(p) == {i \in 2..Len(p) : p[i] = "."}

LastDot(p) ==
    IF DotPositions(p) = {} THEN 0
    ELSE CHOOSE i \in DotPositions(p) : \A j \in DotPositions(p) : j <= i

\* Path::file_stem
FileStem(p) == IF LastDot(p) = 0 THEN p ELSE SubSeq(p, 1, LastDot(p) - 1)

\* Path::with_extension
WithExtension(p, ext) == FileStem(p) \o <<".", ext>>

---------------------------------------------------------------------------
(* The file system *)

RegularFile(data, mode) == [kind |-> "file", data |-> data, mode |-> mode]

\* the mode of a directory is never read
Directory == [kind |-> "dir", data |-> "", mode |-> 0]

\* Path::exists
PathExists(fs, p) == p \in DOMAIN fs

IsDir(fs, p) == PathExists(fs, p) /\ fs[p].kind = "dir"

IoOk(fs) == [ok |-> TRUE, fs |-> fs, err |-> ""]

IoErr(fs, msg) == [ok |-> FALSE, fs |-> fs, err |-> msg]

\* fs::write: creates the file or truncates it, keeping the mode of a file
\* that is already there; fails on a directory
FsWrite(fs, p, data) ==
    IF IsDir(fs, p) THEN IoErr(fs, "IO error: Is a directory")
    ELSE IoOk((p :> RegularFile(data,
                     IF PathExists(fs, p) THEN fs[p].mode ELSE CreateMode))
              @@ fs)

\* fs::metadata + set_mode + fs::set_permissions
SetPermissions(fs, p, mode) == IoOk((p :> [fs[p] EXCEPT !.mode = mode]) @@ fs)

\* fs::read
FsRead(fs, p) ==
    IF IsDir(fs, p) THEN [ok |-> FALSE, val |-> None, err |-> "IO error: Is a directory"]
    ELSE [ok |-> TRUE, val |-> Some(fs[p].data), err |-> ""]

---------------------------------------------------------------------------
(* SshKey (src/ssh/keys.rs) *)

\* SshKey::from_path: the fields export reads
SshKeyFromPath(path) ==
    [name        |-> FileStem(path),
     path        |-> path,
     public_path |-> WithExtension(path, "pub")]

---------------------------------------------------------------------------
(* EncryptionManager (src/crypto/encrypt.rs) *)

NoFile == [kind |-> "absent"]

\* bytes that are not an age envelope
Garbage == [kind |-> "garbage"]

\* a file that File::create truncated and write_all did not finish
Truncated == [kind |-> "partial"]

\* a directory where the container file is expected
OutputDir == [kind |-> "dir"]

\* the container file is expected in a directory that does not exist
NoParentDir == [kind |-> "noparent"]

\* encrypt_with_passphrase: an age envelope for a scrypt recipient.  An
\* envelope has a header, which wraps the file key and ends in a MAC, and a
\* payload of authenticated chunks; `damage` says which of them was altered
\* after the envelope was written.
EncryptWithPassphrase(data, passphrase) ==
    [kind |-> "age", passphrase |-> passphrase, body |-> data, damage |-> "none"]

\* an envelope with bytes of its header (that still parses) or payload altered
Damaged(envelope, part) == [envelope EXCEPT !.damage = part]

\* decrypt_with_passphrase, with a wrong passphrase taken for a right one
DecryptAnyPassphrase(encrypted, passphrase) ==
    IF encrypted.kind # "age"
    THEN [ok |-> FALSE, err |-> "Encryption", val |-> None]
    ELSE [ok |-> TRUE, err |-> "", val |-> Some(encrypted.body)]

\* decrypt_with_passphrase: age::Decryptor::new rejects what is no envelope
\* (mapped to Encryption); decryptor.decrypt rejects an identity that does not
\* unwrap the file key and a header whose MAC is wrong (every error of it is
\* mapped to InvalidPassphrase); the payload is authenticated chunk by chunk
\* only when it is read, so an altered payload fails in read_to_end (mapped
\* to Encryption)
DecryptWithPassphrase(encrypted, passphrase) ==
    IF encrypted.kind # "age"
    THEN [ok |-> FALSE, err |-> "Encryption", val |-> None]
    ELSE IF encrypted.passphrase # passphrase \/ encrypted.damage = "header"
    THEN [ok |-> FALSE, err |-> "InvalidPassphrase", val |-> None]
    ELSE IF encrypted.damage = "payload"
    THEN [ok |-> FALSE, err |-> "Encryption", val |-> None]
    ELSE [ok |-> TRUE, err |-> "", val |-> Some(encrypted.body)]

---------------------------------------------------------------------------
(* Backup codec: serde_json over BackupData *)

\* Option<Vec<u8>> as JSON: null, or the array of the bytes
JsonOfOption(o) ==
    IF IsSome(o) THEN [isNull |-> FALSE, array |-> Unwrap(o)]
    ELSE [isNull |-> TRUE, array |-> ""]

OptionOfJson(j) == IF j.isNull THEN None ELSE Some(j.array)

JsonOfEntry(e) ==
    [name        |-> e.name,
     private_key |-> JsonOfOption(e.private_key),
     public_key  |-> JsonOfOption(e.public_key)]

EntryOfJson(j) ==
    [name        |-> j.name,
     private_key |-> OptionOfJson(j.private_key),
     public_key  |-> OptionOfJson(j.public_key)]

\* serde_json::to_vec(&backup)
ToJson(b) ==
    [metadata |-> b.metadata,
     keys     |-> [i \in 1..Len(b.keys) |-> JsonOfEntry(b.keys[i])]]

\* a plaintext that is not JSON at all
NotJson == [raw |-> "not a valid backup"]

\* whether serde_json::from_slice::<BackupData> accepts the plaintext: it is a
\* JSON object that has the fields the derived Deserialize requires
Decodes(doc) ==
    /\ {"metadata", "keys"} \subseteq DOMAIN doc
    /\ {"version", "key_count"} \subseteq DOMAIN doc.metadata

\* serde_json::from_slice::<BackupData>, for a plaintext it accepts
FromJson(doc) ==
    [metadata |-> doc.metadata,
     keys     |-> [i \in 1..Len(doc.keys) |-> EntryOfJson(doc.keys[i])]]

---------------------------------------------------------------------------
(* BackupManager::export (src/crypto/backup.rs) *)

ReadOk(val) == [ok |-> TRUE, val |-> val, err |-> ""]

\* read_file_if_exists
ReadFileIfExists(fs, path) ==
    IF PathExists(fs, path) THEN FsRead(fs, path) ELSE ReadOk(None)

\* the export loop without its filter
IsSelectedAlways(key, options) == TRUE

\* the selection filter of the export loop
IsSelected(key, options) ==
    \/ ~IsSome(options.selected_keys)
    \/ key.name \in Unwrap(options.selected_keys)

\* the private half of an entry, read whatever include_public_only says
ReadPrivateAlways(fs, key, options) == ReadFileIfExists(fs, key.path)

\* the private half of an entry: None under include_public_only
ReadPrivate(fs, key, options) ==
    IF options.include_public_only THEN ReadOk(None)
    ELSE ReadFileIfExists(fs, key.path)

\* the BackupEntry built for one key
BackupEntryOf(fs, key, options) ==
    [name        |-> key.name,
     private_key |-> ReadPrivate(fs, key, options).val,
     public_key  |-> ReadFileIfExists(fs, key.public_path).val]

\* whether both reads of a key succeed (each is followed by `?`)
EntryReadsOk(fs, key, options) ==
    /\ ReadPrivate(fs, key, options).ok
    /\ ReadFileIfExists(fs, key.public_path).ok

\* the keys that pass the filter, in input order
SelectedKeys(keys, options) ==
    SelectSeq(keys, LAMBDA k : IsSelected(k, options))

\* backup_keys after the loop
BackupKeys(fs, keys, options) ==
    LET sel == SelectedKeys(keys, options)
    IN  [i \in 1..Len(sel) |-> BackupEntryOf(fs, sel[i], options)]

\* the BackupData export serializes
BackupDataOf(fs, keys, options) ==
    [metadata |-> [version   |-> BACKUP_VERSION,
                   key_count |-> Len(BackupKeys(fs, keys, options))],
     keys     |-> BackupKeys(fs, keys, options)]

\* export's outcome: the bytes written to output_path, or the error
ExportResult(fs, keys, passphrase, options) ==
    LET sel == SelectedKeys(keys, options)
    IN  IF \E i \in 1..Len(sel) : ~EntryReadsOk(fs, sel[i], options)
        THEN [ok |-> FALSE, err |-> "Io", file |-> NoFile]
        ELSE [ok   |-> TRUE,
              err  |-> "",
              file |-> EncryptWithPassphrase(
                           ToJson(BackupDataOf(fs, keys, options)), passphrase)]

---------------------------------------------------------------------------
(* BackupManager::import (src/crypto/backup.rs) *)

EmptyReport ==
    [imported |-> <<>>, skipped |-> <<>>, overwritten |-> <<>>, errors |-> <<>>]

\* fs::write without the permission block that follows it
WriteWithoutMode(fs, path, data, mode) == FsWrite(fs, path, data)

\* fs::write followed by the permission block of write_key_files
WriteWithMode(fs, path, data, mode) ==
    LET w == FsWrite(fs, path, data)
    IN  IF w.ok THEN SetPermissions(w.fs, path, mode) ELSE w

\* write_key_files without its second block: the public half is not written
WriteKeyFilesPrivateOnly(fs, name, entry) ==
    IF IsSome(entry.private_key)
    THEN WriteWithMode(fs, name, Unwrap(entry.private_key), PrivateMode)
    ELSE IoOk(fs)

\* write_key_files without its `if let Some`: an absent half is written empty
WriteKeyFilesBothHalves(fs, name, entry) ==
    LET w1 == WriteWithMode(fs, name,
                  IF IsSome(entry.private_key) THEN Unwrap(entry.private_key) ELSE "",
                  PrivateMode)
    IN  IF ~w1.ok THEN w1
        ELSE WriteWithMode(w1.fs, WithExtension(name, "pub"),
                 IF IsSome(entry.public_key) THEN Unwrap(entry.public_key) ELSE "",
                 PublicMode)

\* write_key_files
WriteKeyFiles(fs, name, entry) ==
    LET private_path == name
        public_path  == WithExtension(private_path, "pub")
        w1 == IF IsSome(entry.private_key)
              THEN WriteWithMode(fs, private_path, Unwrap(entry.private_key), PrivateMode)
              ELSE IoOk(fs)
    IN  IF ~w1.ok THEN w1
        ELSE IF IsSome(entry.public_key)
        THEN WriteWithMode(w1.fs, public_path, Unwrap(entry.public_key), PublicMode)
        ELSE w1

\* chrono::Local::now().format("%Y%m%d_%H%M%S"), for the second ts
FormatTimestamp(ts) == ToString(ts)

\* format!("{}_{}", entry.name, timestamp)
RenamedName(name, ts) == name \o <<"_", FormatTimestamp(ts)>>

\* format!("{} -> {}_{{timestamp}}", entry.name, entry.name)
RenamePattern(name) == name \o <<" -> ">> \o name \o <<"_", "{timestamp}">>

\* an existence test that looks at the private path alone
EntryExistsPrivateOnly(fs, name) == PathExists(fs, name)

\* the existence test of import_entry
EntryExists(fs, name) ==
    \/ PathExists(fs, name)
    \/ PathExists(fs, WithExtension(name, "pub"))

\* the existence test of the dry-run branch of import
DryRunExists(fs, name) == PathExists(fs, name)

Outcome(fs, tag, name, err) == [fs |-> fs, tag |-> tag, name |-> name, err |-> err]

\* import_entry with the SkipExisting arm falling through to the write
ImportEntryNoSkip(fs, entry, strategy, ts) ==
    LET exists   == EntryExists(fs, entry.name)
        new_name == RenamedName(entry.name, ts)
        renamed  == WriteKeyFiles(fs, new_name, entry)
        written  == WriteKeyFiles(fs, entry.name, entry)
    IN  IF exists /\ strategy = "Rename"
        THEN IF renamed.ok
             THEN Outcome(renamed.fs, "Imported", new_name, "")
             ELSE Outcome(renamed.fs, "Err", entry.name, renamed.err)
        ELSE IF ~written.ok
        THEN Outcome(written.fs, "Err", entry.name, written.err)
        ELSE IF exists /\ strategy = "SkipExisting"
        THEN Outcome(written.fs, "Skipped", entry.name, "")
        ELSE IF exists
        THEN Outcome(written.fs, "Overwritten", entry.name, "")
        ELSE Outcome(written.fs, "Imported", entry.name, "")

\* import_entry with the strategy consulted before the existence test: under
\* SkipExisting nothing is written
ImportEntryStrategyFirst(fs, entry, strategy, ts) ==
    LET exists   == EntryExists(fs, entry.name)
        new_name == RenamedName(entry.name, ts)
        renamed  == WriteKeyFiles(fs, new_name, entry)
        written  == WriteKeyFiles(fs, entry.name, entry)
    IN  IF strategy = "SkipExisting"
        THEN Outcome(fs, "Skipped", entry.name, "")
        ELSE IF exists /\ strategy = "Rename"
        THEN IF renamed.ok
             THEN Outcome(renamed.fs, "Imported", new_name, "")
             ELSE Outcome(renamed.fs, "Err", entry.name, renamed.err)
        ELSE IF ~written.ok
        THEN Outcome(written.fs, "Err", entry.name, written.err)
        ELSE IF exists
        THEN Outcome(written.fs, "Overwritten", entry.name, "")
        ELSE Outcome(written.fs, "Imported", entry.name, "")

\* import_entry: the store it leaves and the ImportResult or error it returns
ImportEntry(fs, entry, strategy, ts) ==
    LET exists   == EntryExists(fs, entry.name)
        new_name == RenamedName(entry.name, ts)
        renamed  == WriteKeyFiles(fs, new_name, entry)
        written  == WriteKeyFiles(fs, entry.name, entry)
    IN  IF exists /\ strategy = "SkipExisting"
        THEN Outcome(fs, "Skipped", entry.name, "")
        ELSE IF exists /\ strategy = "Rename"
        THEN IF renamed.ok
             THEN Outcome(renamed.fs, "Imported", new_name, "")
             ELSE Outcome(renamed.fs, "Err", entry.name, renamed.err)
        ELSE IF ~written.ok
        THEN Outcome(written.fs, "Err", entry.name, written.err)
        ELSE IF exists
        THEN Outcome(written.fs, "Overwritten", entry.name, "")
        ELSE Outcome(written.fs, "Imported", entry.name, "")

\* the match of the import loop with the Err arm dropping the error
PushOutcomeDropErrors(rep, o) ==
    IF o.tag = "Imported" THEN [rep EXCEPT !.imported = Append(@, o.name)]
    ELSE IF o.tag = "Skipped" THEN [rep EXCEPT !.skipped = Append(@, o.name)]
    ELSE IF o.tag = "Overwritten" THEN [rep EXCEPT !.overwritten = Append(@, o.name)]
    ELSE rep

\* the match of the import loop with an overwritten entry also pushed to imported
PushOutcomeOverwrittenTwice(rep, o) ==
    IF o.tag = "Imported" THEN [rep EXCEPT !.imported = Append(@, o.name)]
    ELSE IF o.tag = "Skipped" THEN [rep EXCEPT !.skipped = Append(@, o.name)]
    ELSE IF o.tag = "Overwritten"
    THEN [rep EXCEPT !.overwritten = Append(@, o.name),
                     !.imported = Append(@, o.name)]
    ELSE [rep EXCEPT !.errors = Append(@, <<o.name, o.err>>)]

\* the match of the import loop with the outcome put at the front of its list
PushOutcomeFront(rep, o) ==
    IF o.tag = "Imported" THEN [rep EXCEPT !.imported = <<o.name>> \o @]
    ELSE IF o.tag = "Skipped" THEN [rep EXCEPT !.skipped = <<o.name>> \o @]
    ELSE IF o.tag = "Overwritten" THEN [rep EXCEPT !.overwritten = <<o.name>> \o @]
    ELSE [rep EXCEPT !.errors = <<(<<o.name, o.err>>)>> \o @]

\* the match of the import loop: where the outcome of one entry is recorded
PushOutcome(rep, o) ==
    IF o.tag = "Imported" THEN [rep EXCEPT !.imported = Append(@, o.name)]
    ELSE IF o.tag = "Skipped" THEN [rep EXCEPT !.skipped = Append(@, o.name)]
    ELSE IF o.tag = "Overwritten" THEN [rep EXCEPT !.overwritten = Append(@, o.name)]
    ELSE [rep EXCEPT !.errors = Append(@, <<o.name, o.err>>)]

\* one iteration of the dry-run loop: what it records
DryRunOutcome(fs, entry, strategy) ==
    IF DryRunExists(fs, entry.name)
    THEN IF strategy = "SkipExisting" THEN Outcome(fs, "Skipped", entry.name, "")
         ELSE IF strategy = "Overwrite" THEN Outcome(fs, "Overwritten", entry.name, "")
         ELSE Outcome(fs, "Imported", RenamePattern(entry.name), "")
    ELSE Outcome(fs, "Imported", entry.name, "")

\* the dry-run loop as a whole, started with the report rep
RECURSIVE DryRunReport(_, _, _, _)
DryRunReport(fs, keys, strategy, rep) ==
    IF keys = <<>> THEN rep
    ELSE DryRunReport(fs, Tail(keys), strategy,
             PushOutcome(rep, DryRunOutcome(fs, Head(keys), strategy)))

\* read, decrypt and parse, with a plaintext that does not parse taken for a
\* container without entries
LoadBackupLenient(file, passphrase) ==
    LET dec == DecryptWithPassphrase(file, passphrase)
    IN  IF file.kind \in {"absent", "dir", "noparent"}
        THEN [ok |-> FALSE, err |-> "Io", keys |-> <<>>]
        ELSE IF ~dec.ok THEN [ok |-> FALSE, err |-> dec.err, keys |-> <<>>]
        ELSE IF ~Decodes(Unwrap(dec.val)) THEN [ok |-> TRUE, err |-> "", keys |-> <<>>]
        ELSE [ok |-> TRUE, err |-> "", keys |-> FromJson(Unwrap(dec.val)).keys]

\* read, decrypt and parse: the entries of the container, or the error
LoadBackup(file, passphrase) ==
    LET dec == DecryptWithPassphrase(file, passphrase)
    IN  IF file.kind \in {"absent", "dir", "noparent"}
        THEN [ok |-> FALSE, err |-> "Io", keys |-> <<>>]
        ELSE IF ~dec.ok THEN [ok |-> FALSE, err |-> dec.err, keys |-> <<>>]
        ELSE IF ~Decodes(Unwrap(dec.val))
        THEN [ok |-> FALSE, err |-> "ImportExport", keys |-> <<>>]
        ELSE [ok |-> TRUE, err |-> "", keys |-> FromJson(Unwrap(dec.val)).keys]

---------------------------------------------------------------------------
(* The inputs the operations are tried on *)

Names == {<<"k">>, <<"k", ".", "b">>}

\* the files a source directory may hold, with their bytes
SourceFiles ==
    (<<"k">> :> RegularFile("priv_k", PrivateMode))
    @@ (<<"k", ".", "pub">> :> RegularFile("pub_k", PublicMode))
    @@ (<<"k", ".", "b", ".", "c">> :> RegularFile("priv_kb", PrivateMode))
    @@ (<<"k", ".", "b", ".", "pub">> :> RegularFile("pub_kb", PublicMode))

\* a source directory in which the private path of key k is a directory
UnreadableSource ==
    (<<"k">> :> Directory) @@ (<<"k", ".", "pub">> :> SourceFiles[<<"k", ".", "pub">>])

SourceStores ==
    {[p \in S |-> SourceFiles[p]] : S \in SUBSET (DOMAIN SourceFiles)}
    \cup {UnreadableSource}

\* the private key files export may be pointed at
KeyPaths == {<<"k">>, <<"k", ".", "b", ".", "c">>}

KeyLists ==
    UNION {[1..n -> {SshKeyFromPath(p) : p \in KeyPaths}] : n \in 0..MaxKeys}

\* no selection, or one that names a key and a name no key has
ExportOptionsSet ==
    [include_public_only : BOOLEAN,
     selected_keys : {None, Some({<<"k">>, <<"z">>})}]

DefaultExportOptions == [include_public_only |-> FALSE, selected_keys |-> None]

Passphrases == {"correct", "wrong"}

MergeStrategies == {"SkipExisting", "Overwrite", "Rename"}

Timestamps == 1..MaxTime

\* what may already be at a name of the key store
OldEntries(p, data, mode) ==
    {<<>>, (p :> RegularFile(data, mode)), (p :> Directory)}

\* (an old private key file has the mode of a file written without care)
TargetStores ==
    {a @@ b : a \in OldEntries(<<"k">>, "old_priv", CreateMode),
              b \in OldEntries(<<"k", ".", "pub">>, "old_pub", PublicMode)}

\* plaintexts serde_json rejects: no JSON, and a JSON object without `keys`
UndecodablePayloads ==
    {NotJson, [metadata |-> [version |-> BACKUP_VERSION, key_count |-> 0]]}

\* a well-formed container of one entry whose metadata.version is v
VersionedBackup(v) ==
    [metadata |-> [version |-> v, key_count |-> 1],
     keys     |-> << [name        |-> <<"k">>,
                      private_key |-> Some("priv_k"),
                      public_key  |-> Some("pub_k")] >>]

\* a container written by a later release of the format
NewerContainer ==
    EncryptWithPassphrase(ToJson(VersionedBackup(BACKUP_VERSION + 1)), "correct")

\* a container of the supported version that was altered after it was written
TamperedContainers ==
    {Damaged(EncryptWithPassphrase(ToJson(VersionedBackup(BACKUP_VERSION)), "correct"),
             part) : part \in {"header", "payload"}}

\* a container with two entries of the same name and different bytes
DuplicateContainer ==
    EncryptWithPassphrase(
        ToJson([metadata |-> [version |-> BACKUP_VERSION, key_count |-> 2],
                keys     |-> << [name        |-> <<"k">>,
                                 private_key |-> Some("priv_k"),
                                 public_key  |-> Some("pub_k")],
                                [name        |-> <<"k">>,
                                 private_key |-> Some("priv_k2"),
                                 public_key  |-> Some("pub_k2")] >>]),
        "correct")

\* container files that were not written by the export of this run
ForeignContainers ==
    {EncryptWithPassphrase(p, "correct") : p \in UndecodablePayloads}
    \cup {NewerContainer, DuplicateContainer}
    \cup TamperedContainers

NoExport == [done |-> FALSE]

NoStep == [acted |-> FALSE]

NoImport == [done |-> FALSE]

\* the terminal interface was not started
NoApp == [state |-> "NotStarted"]

NoCall == [op |-> "none"]

\* the record of one iteration of a loop
StepRecord(entry, fs, rep, o, ts) ==
    [acted |-> TRUE, entry |-> entry, store |-> fs, report |-> rep,
     tag |-> o.tag, name |-> o.name, err |-> o.err, ts |-> ts]

NoOptions == [merge_strategy |-> "none", dry_run |-> FALSE, passphrase |-> ""]

---------------------------------------------------------------------------
(* The state machine *)

Init ==
    /\ src \in SourceStores
    /\ store \in TargetStores
    /\ backup \in {NoFile, Garbage, OutputDir, NoParentDir} \cup ForeignContainers
    /\ exported = NoExport
    /\ exportResult = "none"
    /\ pc = "idle"
    /\ opts = NoOptions
    /\ queue = <<>>
    /\ report = EmptyReport
    /\ result = "none"
    /\ store0 = store
    /\ last = NoStep
    /\ prev = NoImport
    /\ app = NoApp
    /\ call = NoCall

\* fs::File::create(output_path): fails when the path is a directory and
\* when the directory it is in does not exist
CreateOk(file) == file.kind \notin {"dir", "noparent"}

\* the arguments with which export gets as far as creating the file
ReachesWrite(fs) ==
    {a \in KeyLists \X Passphrases \X ExportOptionsSet :
        ExportResult(fs, a[1], a[2], a[3]).ok}

\* BackupManager::export(keys, output_path, passphrase, options).  The file
\* is created, which truncates it, and then written: either write_all
\* completes, or it fails (the disk is full) and leaves what it had written.
Export ==
    /\ pc = "idle"
    /\ \/ \E keys \in KeyLists, passphrase \in Passphrases, options \in ExportOptionsSet :
             LET r == ExportResult(src, keys, passphrase, options)
                 created == r.ok /\ CreateOk(backup)
             IN  /\ backup' = IF created THEN r.file ELSE backup
                 /\ exported' = IF created
                                THEN [done |-> TRUE, keys |-> keys,
                                      passphrase |-> passphrase, options |-> options]
                                ELSE exported
                 /\ exportResult' = IF created THEN "Ok" ELSE "Io"
       \/ /\ ReachesWrite(src) # {}
          /\ CreateOk(backup)
          /\ backup' = Truncated
          /\ exported' = NoExport
          /\ exportResult' = "Io"
    /\ UNCHANGED <<src, store, pc, opts, queue, report, result, store0, last, prev, app, call>>

\* BackupManager::import up to the loops: read, decrypt, parse, empty report
ImportBegin ==
    /\ pc = "idle"
    /\ \E passphrase \in Passphrases, strategy \in MergeStrategies, dry_run \in BOOLEAN :
          LET b == LoadBackup(backup, passphrase)
          IN  /\ opts' = [merge_strategy |-> strategy, dry_run |-> dry_run,
                          passphrase |-> passphrase]
              /\ queue' = b.keys
              /\ pc' = IF ~b.ok THEN "failed"
                       ELSE IF b.keys = <<>> THEN "done" ELSE "loop"
              /\ result' = IF ~b.ok THEN b.err
                           ELSE IF b.keys = <<>> THEN "Ok" ELSE "none"
    /\ report' = EmptyReport
    /\ store0' = store
    /\ last' = NoStep
    /\ UNCHANGED <<src, store, backup, exported, exportResult, prev, app, call>>

\* import called once more, on the same container with the same passphrase
\* under SkipExisting, after an import that was not a dry run has returned
\* a report without errors
ImportAgain ==
    /\ pc = "done"
    /\ ~opts.dry_run
    /\ report.errors = <<>>
    /\ prev = NoImport
    /\ LET b == LoadBackup(backup, opts.passphrase)
       IN  /\ queue' = b.keys
           /\ pc' = IF ~b.ok THEN "failed"
                    ELSE IF b.keys = <<>> THEN "done" ELSE "loop"
           /\ result' = IF ~b.ok THEN b.err
                        ELSE IF b.keys = <<>> THEN "Ok" ELSE "none"
    /\ prev' = [done |-> TRUE, opts |-> opts, report |-> report, store0 |-> store0]
    /\ opts' = [opts EXCEPT !.merge_strategy = "SkipExisting"]
    /\ report' = EmptyReport
    /\ store0' = store
    /\ last' = NoStep
    /\ UNCHANGED <<src, store, backup, exported, exportResult, app, call>>

\* what both loops do after an entry: go on, or return Ok(report)
AfterEntry ==
    /\ queue' = Tail(queue)
    /\ pc' = IF Tail(queue) = <<>> THEN "done" ELSE "loop"
    /\ result' = IF Tail(queue) = <<>> THEN "Ok" ELSE "none"

\* one iteration of the dry-run loop
DryRunStep ==
    /\ pc = "loop"
    /\ opts.dry_run
    /\ LET o == DryRunOutcome(store, Head(queue), opts.merge_strategy)
       IN  /\ report' = PushOutcome(report, o)
           /\ last' = StepRecord(Head(queue), store, report, o, 0)
    /\ AfterEntry
    /\ UNCHANGED <<src, store, backup, exported, exportResult, opts, store0, prev, app, call>>

\* the importing loop entered in a dry run too (no return after the dry-run loop)
ImportStepAnyMode ==
    /\ pc = "loop"
    /\ \E ts \in Timestamps :
          LET o == ImportEntry(store, Head(queue), opts.merge_strategy, ts)
          IN  /\ store' = o.fs
              /\ report' = PushOutcome(report, o)
              /\ last' = StepRecord(Head(queue), store, report, o, ts)
    /\ AfterEntry
    /\ UNCHANGED <<src, backup, exported, exportResult, opts, store0, prev, app, call>>

\* one iteration of the loop that actually imports
ImportStep ==
    /\ pc = "loop"
    /\ ~opts.dry_run
    /\ \E ts \in Timestamps :
          LET o == ImportEntry(store, Head(queue), opts.merge_strategy, ts)
          IN  /\ store' = o.fs
              /\ report' = PushOutcome(report, o)
              /\ last' = StepRecord(Head(queue), store, report, o, ts)
    /\ AfterEntry
    /\ UNCHANGED <<src, backup, exported, exportResult, opts, store0, prev, app, call>>

Next ==
    \/ Export
    \/ ImportBegin
    \/ ImportAgain
    \/ DryRunStep
    \/ ImportStep

Spec == Init /\ [][Next]_vars

---------------------------------------------------------------------------
(* KeyGenerator (src/ssh/generate.rs) *)

\* OpenOptions write/create/truncate with .mode(m), then write_all: the mode
\* is given to a file that is created and left as it is on one that exists
OpenWrite(fs, p, data, mode) ==
    IF IsDir(fs, p) THEN IoErr(fs, "Io")
    ELSE IoOk((p :> RegularFile(data,
                     IF PathExists(fs, p) THEN fs[p].mode ELSE mode))
              @@ fs)

\* the key pairs PrivateKey::random can return
Seeds == {"r1", "r2"}

\* key.to_openssh(): the private key file of a pair
PrivateBytes(seed) == IF seed = "r1" THEN "new_priv_1" ELSE "new_priv_2"

\* format!("{} {}", key_data, comment): the public key file of a pair, which
\* ends in the comment
PublicBytes(seed, comment) ==
    IF comment = <<"user@host">>
    THEN (IF seed = "r1" THEN "new_pub_1 user@host" ELSE "new_pub_2 user@host")
    ELSE (IF seed = "r1" THEN "new_pub_1 comment" ELSE "new_pub_2 comment")

DefaultComment == <<"user@host">>

\* KeyType::default_filename
DefaultFilename(key_type) ==
    IF key_type = "Ed25519" THEN <<"id_ed25519">> ELSE <<"id_rsa">>

\* KeyGenOptions::default()
DefaultKeyGenOptions ==
    [key_type   |-> "Ed25519",
     comment    |-> DefaultComment,
     passphrase |-> None,
     filename   |-> <<"id_ed25519">>]

\* generate without the test of the private path
GenerateNoExistsTest(fs, options, seed) ==
    LET private_path == options.filename
        public_path  == WithExtension(private_path, "pub")
        w1 == OpenWrite(fs, private_path, PrivateBytes(seed), PrivateMode)
        w2 == OpenWrite(w1.fs, public_path,
                        PublicBytes(seed, options.comment), PublicMode)
    IN  IF options.key_type # "Ed25519" THEN IoErr(fs, "SshKey")
        ELSE IF ~w1.ok THEN w1
        ELSE w2

\* KeyGenerator::generate: the passphrase of the options is not used
Generate(fs, options, seed) ==
    LET private_path == options.filename
        public_path  == WithExtension(private_path, "pub")
        w1 == OpenWrite(fs, private_path, PrivateBytes(seed), PrivateMode)
        w2 == OpenWrite(w1.fs, public_path,
                        PublicBytes(seed, options.comment), PublicMode)
    IN  IF PathExists(fs, private_path) THEN IoErr(fs, "KeyAlreadyExists")
        ELSE IF options.key_type # "Ed25519" THEN IoErr(fs, "SshKey")
        ELSE IF ~w1.ok THEN w1
        ELSE w2

---------------------------------------------------------------------------
(* KeyScanner (src/ssh/scan.rs) *)

\* file_name.ends_with(".pub")
EndsWithPub(p) == Len(p) >= 2 /\ p[Len(p) - 1] = "." /\ p[Len(p)] = "pub"

\* KeyScanner::is_non_key_file
IsNonKeyFile(p) ==
    \/ p \in {<<"authorized_keys">>, <<"authorized_keys2">>, <<"known_hosts">>,
              <<"known_hosts", ".", "old">>, <<"config">>}
    \/ Len(p) >= 2 /\ p[1] = "agent" /\ p[2] = "."

\* the tokens of the names of the model in the order of their bytes
TokenOrder == <<".", "/", "a", "config", "id_ed25519", "id_rsa", "k", "pub">>

TokenRank(t) == CHOOSE i \in 1..Len(TokenOrder) : TokenOrder[i] = t

\* a.name.cmp(&b.name) is Less
NameLess(a, b) ==
    \E i \in 1..(Len(a) + 1) :
       /\ \A j \in 1..(i - 1) : j <= Len(b) /\ a[j] = b[j]
       /\ \/ i = Len(a) + 1 /\ Len(b) >= i
          \/ i <= Len(a) /\ i <= Len(b) /\ TokenRank(a[i]) < TokenRank(b[i])

\* the files scan makes a key of
KeyFiles(fs) ==
    {p \in DOMAIN fs : ~IsDir(fs, p) /\ ~EndsWithPub(p) /\ ~IsNonKeyFile(p)}

\* KeyScanner::scan: the key files sorted by name; the sort is stable and
\* the order in which the directory is read is not specified, so keys of
\* the same name may come in any order
Scan(fs) ==
    LET files == KeyFiles(fs)
        n     == Cardinality(files)
    IN  {s \in [1..n -> {SshKeyFromPath(p) : p \in files}] :
            /\ \A i, j \in 1..n : i # j => s[i] # s[j]
            /\ \A i, j \in 1..n : i < j => ~NameLess(s[j].name, s[i].name)}

---------------------------------------------------------------------------
(* CreateWizard (src/tui/components/wizard.rs) *)

\* CreateWizard::new
NewWizard ==
    [step          |-> "SelectType",
     options       |-> DefaultKeyGenOptions,
     temp_filename |-> <<"id_ed25519">>,
     error_message |-> None]

\* CreateWizard::select_type
SelectType(w, key_type) ==
    [w EXCEPT !.options.key_type = key_type,
              !.temp_filename = DefaultFilename(key_type),
              !.step = "EnterFilename"]

HasSeparator(text) == \E i \in 1..Len(text) : text[i] \in {"/", "\\"}

\* CreateWizard::set_filename
SetFilename(w, filename) ==
    IF filename = <<>>
    THEN [w   |-> [w EXCEPT !.error_message = Some("Filename cannot be empty")],
          ret |-> FALSE]
    ELSE IF HasSeparator(filename)
    THEN [w   |-> [w EXCEPT !.error_message =
                                Some("Filename cannot contain path separators")],
          ret |-> FALSE]
    ELSE [w   |-> [w EXCEPT !.options.filename = filename,
                            !.step = "EnterComment",
                            !.error_message = None],
          ret |-> TRUE]

\* CreateWizard::set_comment
SetComment(w, comment) ==
    [w EXCEPT !.options.comment = IF comment = <<>> THEN DefaultComment ELSE comment,
              !.step = "EnterPassphrase"]

\* CreateWizard::set_passphrase
SetPassphrase(w, passphrase, confirm) ==
    IF passphrase # <<>> /\ passphrase # confirm
    THEN [w   |-> [w EXCEPT !.error_message = Some("Passphrases do not match")],
          ret |-> FALSE]
    ELSE [w   |-> [w EXCEPT !.options.passphrase =
                                IF passphrase = <<>> THEN None ELSE Some(passphrase),
                            !.error_message = None],
          ret |-> TRUE]

\* the match of CreateWizard::next_step
StepAfter(step) ==
    CASE step = "SelectType"      -> "EnterFilename"
      [] step = "EnterFilename"   -> "EnterComment"
      [] step = "EnterComment"    -> "EnterPassphrase"
      [] step = "EnterPassphrase" -> "Confirm"
      [] step = "Confirm"         -> "Confirm"

\* the match of CreateWizard::previous_step
StepBefore(step) ==
    CASE step = "SelectType"      -> "SelectType"
      [] step = "EnterFilename"   -> "SelectType"
      [] step = "EnterComment"    -> "EnterFilename"
      [] step = "EnterPassphrase" -> "EnterComment"
      [] step = "Confirm"         -> "EnterPassphrase"

\* CreateWizard::next_step
NextStep(w) == [w EXCEPT !.step = StepAfter(@)]

\* CreateWizard::previous_step
PreviousStep(w) == [w EXCEPT !.step = StepBefore(@)]

---------------------------------------------------------------------------
(* App (src/tui/app.rs) *)

\* App::new, given what the scan returned
NewApp(keys) ==
    [state                     |-> "KeyList",
     keys                      |-> keys,
     selected_index            |-> 0,
     selected_key              |-> None,
     message                   |-> None,
     wizard                    |-> None,
     wizard_input              |-> <<>>,
     wizard_confirm_passphrase |-> <<>>]

\* refresh_keys that never adjusts the index
RefreshKeysKeepIndex(a, keys) == [a EXCEPT !.keys = keys]

\* App::refresh_keys, given what the scan returned
RefreshKeys(a, keys) ==
    [a EXCEPT !.keys = keys,
              !.selected_index =
                  IF keys # <<>> /\ @ >= Len(keys) THEN Len(keys) - 1 ELSE @]

\* App::next_key
NextKey(a) ==
    IF a.keys # <<>>
    THEN [a EXCEPT !.selected_index = (@ + 1) % Len(a.keys)]
    ELSE a

\* App::previous_key
PreviousKey(a) ==
    IF a.keys # <<>>
    THEN [a EXCEPT !.selected_index = IF @ = 0 THEN Len(a.keys) - 1 ELSE @ - 1]
    ELSE a

\* App::get_selected_key: self.keys.get(self.selected_index)
GetSelectedKey(a) ==
    IF a.selected_index < Len(a.keys)
    THEN Some(a.keys[a.selected_index + 1])
    ELSE None

\* App::select_key
SelectKey(a, index) ==
    IF index < Len(a.keys) THEN [a EXCEPT !.selected_index = index] ELSE a

\* App::set_message
SetMessage(a, text, return_state) ==
    [a EXCEPT !.message = Some([text |-> text, return_state |-> return_state]),
              !.state = "MessageDialog"]

\* App::clear_message
ClearMessage(a) ==
    [a EXCEPT !.state = IF IsSome(a.message) THEN Unwrap(a.message).return_state ELSE @,
              !.message = None]

\* App::start_wizard
StartWizard(a) ==
    [a EXCEPT !.wizard = Some(NewWizard),
              !.wizard_input = <<>>,
              !.wizard_confirm_passphrase = <<>>]

\* App::get_wizard_step
GetWizardStep(a) == IF IsSome(a.wizard) THEN Some(Unwrap(a.wizard).step) ELSE None

\* App::wizard_next: the App it leaves and what it returns
WizardNext(a) ==
    IF ~IsSome(a.wizard) THEN [app |-> a, ret |-> FALSE]
    ELSE
    LET wizard == Unwrap(a.wizard)
    IN  CASE wizard.step = "SelectType" -> [app |-> a, ret |-> FALSE]
          [] wizard.step = "EnterFilename" ->
                LET r == SetFilename(wizard, a.wizard_input)
                IN  IF r.ret
                    THEN [app |-> [a EXCEPT !.wizard = Some(NextStep(r.w)),
                                            !.wizard_input = <<>>],
                          ret |-> TRUE]
                    ELSE [app |-> [a EXCEPT !.wizard = Some(r.w)], ret |-> FALSE]
          [] wizard.step = "EnterComment" ->
                [app |-> [a EXCEPT !.wizard =
                                       Some(NextStep(SetComment(wizard, a.wizard_input))),
                                   !.wizard_input = <<>>],
                 ret |-> TRUE]
          [] wizard.step = "EnterPassphrase" ->
                LET r == SetPassphrase(wizard, a.wizard_input,
                                       a.wizard_confirm_passphrase)
                IN  IF r.ret
                    THEN [app |-> [a EXCEPT !.wizard = Some(NextStep(r.w))],
                          ret |-> TRUE]
                    ELSE [app |-> [a EXCEPT !.wizard = Some(r.w)], ret |-> FALSE]
          [] wizard.step = "Confirm" -> [app |-> a, ret |-> TRUE]

\* App::wizard_previous
WizardPrevious(a) ==
    IF IsSome(a.wizard)
    THEN [a EXCEPT !.wizard = Some(PreviousStep(Unwrap(@))),
                   !.wizard_input = <<>>,
                   !.wizard_confirm_passphrase = <<>>]
    ELSE a

\* App::wizard_select_type
WizardSelectType(a, key_type) ==
    IF IsSome(a.wizard)
    THEN LET w == SelectType(Unwrap(a.wizard), key_type)
         IN  [a EXCEPT !.wizard = Some(w), !.wizard_input = w.temp_filename]
    ELSE a

\* App::get_wizard_error
GetWizardError(a) ==
    IF IsSome(a.wizard) THEN Unwrap(a.wizard).error_message ELSE None

\* App::clear_wizard_error
ClearWizardError(a) ==
    IF IsSome(a.wizard)
    THEN [a EXCEPT !.wizard = Some([Unwrap(@) EXCEPT !.error_message = None])]
    ELSE a

\* App::end_wizard
EndWizard(a) ==
    [a EXCEPT !.wizard = None,
              !.wizard_input = <<>>,
              !.wizard_confirm_passphrase = <<>>]

---------------------------------------------------------------------------
(* Key events (src/tui/events.rs) *)

\* longest text typed into the input line of the wizard
MaxInput == 1

\* the keys pressed in the model.  "Tab" is KeyCode::Tab, the others with a
\* name are the KeyCode of that name, and the rest are KeyCode::Char
KeyCodes ==
    {"Esc", "Enter", "Backspace", "Down", "Up", "Tab",
     "q", "n", "d", "r", "y", "1", "2", "a", "/"}

\* the characters that are typed into the input line of the wizard
InputChars == {"a", "/"}

\* std::fs::remove_file(p).is_ok()
RemoveOk(fs, p) == PathExists(fs, p) /\ ~IsDir(fs, p)

\* std::fs::remove_file
RemoveFile(fs, p) ==
    IF RemoveOk(fs, p) THEN [q \in (DOMAIN fs) \ {p} |-> fs[q]] ELSE fs

\* what a handler leaves: the App and the directory
Handled(a, fs) == [app |-> a, fs |-> fs]

\* handle_key_list: the outcomes of one key
HandleKeyList(a, fs, key) ==
    CASE key \in {"q", "Esc"} -> {Handled([a EXCEPT !.state = "Quit"], fs)}
      [] key = "Down" -> {Handled(NextKey(a), fs)}
      [] key = "Up" -> {Handled(PreviousKey(a), fs)}
      [] key = "Enter" ->
            {Handled(IF IsSome(GetSelectedKey(a))
                     THEN [a EXCEPT !.selected_key = GetSelectedKey(a),
                                    !.state = "KeyDetail"]
                     ELSE a, fs)}
      [] key = "n" -> {Handled([StartWizard(a) EXCEPT !.state = "CreateWizard"], fs)}
      [] key = "d" ->
            {Handled(IF IsSome(GetSelectedKey(a))
                     THEN [a EXCEPT !.state = "DeleteConfirm"]
                     ELSE a, fs)}
      [] key = "r" ->
            {Handled(SetMessage(RefreshKeys(a, keys), "Keys refreshed", "KeyList"), fs) :
                keys \in Scan(fs)}
      [] OTHER -> {Handled(a, fs)}

\* handle_key_detail
HandleKeyDetail(a, fs, key) ==
    IF key \in {"Esc", "q"}
    THEN {Handled([a EXCEPT !.state = "KeyList", !.selected_key = None], fs)}
    ELSE {Handled(a, fs)}

\* the Enter arm of handle_create_wizard at the steps that take text
WizardEnterText(a) ==
    LET r == WizardNext(a)
    IN  IF ~r.ret /\ IsSome(GetWizardError(r.app))
        THEN SetMessage(r.app, Unwrap(GetWizardError(r.app)), "CreateWizard")
        ELSE r.app

\* the Enter arm of handle_create_wizard at the step Confirm
WizardEnterConfirm(a, fs) ==
    IF ~IsSome(a.wizard) THEN {Handled(a, fs)}
    ELSE UNION {
        LET g == Generate(fs, Unwrap(a.wizard).options, seed)
        IN  IF g.ok
            THEN {Handled(SetMessage(EndWizard(RefreshKeys(a, keys)),
                                     "Key created successfully", "KeyList"), g.fs) :
                     keys \in Scan(g.fs)}
            ELSE {Handled(SetMessage(a, g.err, "CreateWizard"), g.fs)}
        : seed \in Seeds}

\* handle_create_wizard
HandleCreateWizard(a, fs, key) ==
    LET current_step == IF IsSome(GetWizardStep(a))
                        THEN Unwrap(GetWizardStep(a)) ELSE "SelectType"
    IN  CASE key = "Esc" -> {Handled([EndWizard(a) EXCEPT !.state = "KeyList"], fs)}
          [] key = "Backspace" ->
                {Handled([a EXCEPT !.wizard_input =
                                      IF @ = <<>> THEN @ ELSE SubSeq(@, 1, Len(@) - 1)],
                         fs)}
          [] key = "Enter" ->
                LET c == ClearWizardError(a)
                IN  IF current_step = "SelectType" THEN {Handled(c, fs)}
                    ELSE IF current_step = "Confirm" THEN WizardEnterConfirm(c, fs)
                    ELSE {Handled(WizardEnterText(c), fs)}
          [] key \in {"Tab", "Down", "Up"} -> {Handled(a, fs)}
          [] OTHER ->
                LET c == ClearWizardError(a)
                IN  IF current_step = "SelectType"
                    THEN {Handled(IF key = "1" THEN WizardSelectType(c, "Ed25519")
                                  ELSE IF key = "2" THEN WizardSelectType(c, "Rsa")
                                  ELSE c, fs)}
                    ELSE {Handled([c EXCEPT !.wizard_input = Append(@, key)], fs)}

\* handle_delete_confirm
HandleDeleteConfirm(a, fs, key) ==
    CASE key \in {"Esc", "n"} -> {Handled([a EXCEPT !.state = "KeyList"], fs)}
      [] key = "y" ->
            IF IsSome(GetSelectedKey(a))
            THEN LET k   == Unwrap(GetSelectedKey(a))
                     private_deleted == RemoveOk(fs, k.path)
                     fs1 == RemoveFile(fs, k.path)
                     public_deleted == RemoveOk(fs1, k.public_path)
                     fs2 == RemoveFile(fs1, k.public_path)
                 IN  IF private_deleted \/ public_deleted
                     THEN {Handled(SetMessage(RefreshKeys(a, keys), "Deleted key", "KeyList"),
                                   fs2) : keys \in Scan(fs2)}
                     ELSE {Handled(SetMessage(a, "Failed to delete key", "KeyList"), fs2)}
            ELSE {Handled(a, fs)}
      [] OTHER -> {Handled(a, fs)}

\* handle_message_dialog
HandleMessageDialog(a, fs, key) ==
    IF key \in {"Enter", "Esc"} THEN {Handled(ClearMessage(a), fs)}
    ELSE {Handled(a, fs)}

\* the keys of a state that the model presses: in the wizard the characters
\* typed are those of InputChars and the digits of the type selection, and
\* the input line is at most MaxInput long
Pressed(a) ==
    IF a.state = "CreateWizard"
    THEN {"Esc", "Enter", "Backspace", "Tab"}
         \cup (IF GetWizardStep(a) = Some("SelectType") THEN {"1", "2"}
               ELSE IF Len(a.wizard_input) < MaxInput THEN InputChars ELSE {})
    ELSE KeyCodes

---------------------------------------------------------------------------
(* The terminal interface as a state machine: the key store is its ssh_dir *)

\* ssh directories the interface is started on
TuiStores ==
    { <<>>,
      (<<"id_ed25519">> :> RegularFile("old_priv", PrivateMode))
         @@ (<<"id_ed25519", ".", "pub">> :> RegularFile("old_pub", PublicMode))
         @@ (<<"config">> :> RegularFile("Host *", PublicMode)) }

\* the options KeyGenerator::generate is called with from outside the wizard
KeyGenOptionsSet ==
    {[DefaultKeyGenOptions EXCEPT !.key_type = t, !.filename = f] :
        t \in {"Ed25519", "Rsa"}, f \in {<<"id_ed25519">>, <<"a">>}}

\* ssh directories KeyGenerator::generate is called on: the public path of
\* the key a may be a directory
GenStores ==
    TuiStores
    \cup { (<<"a", ".", "pub">> :> Directory)
             @@ (<<"id_ed25519">> :> RegularFile("old_priv", PrivateMode)) }

\* what a call of the App is remembered by: what was called with which
\* argument, the selected index, the number of keys and the step of the
\* wizard it started from, and what it returned
CallRecord(op, arg, a, ret) ==
    [op    |-> op,
     arg   |-> arg,
     index |-> a.selected_index,
     count |-> Len(a.keys),
     step  |-> GetWizardStep(a),
     ret   |-> ret]

\* a key event was handled after the latest call
KeyHandled == [op |-> "key"]

\* what a call of the generator is remembered by: its options, the
\* directory it started from and what it returned
GenRecord(options, fs, ret) ==
    [op |-> "generate", options |-> options, fs |-> fs, ret |-> ret]

\* a file was deleted after the latest call
Deleted == [op |-> "deleted"]

\* the variables of the backup engine are at rest
BackupAtRest ==
    /\ src = <<>>
    /\ backup = NoFile
    /\ exported = NoExport
    /\ exportResult = "none"
    /\ pc = "idle"
    /\ opts = NoOptions
    /\ queue = <<>>
    /\ report = EmptyReport
    /\ result = "none"
    /\ store0 = <<>>
    /\ last = NoStep
    /\ prev = NoImport

InitTui ==
    /\ BackupAtRest
    /\ store \in TuiStores
    /\ app \in {NewApp(keys) : keys \in Scan(store)}
    /\ call = NoCall

\* a key event is handled by the handler of the state the App is in
KeyEvent(outcomes, key) ==
    /\ \E o \in outcomes :
          /\ app' = o.app
          /\ store' = o.fs
    /\ call' = KeyHandled
    /\ UNCHANGED backupVars

KeyListEvent ==
    /\ app.state = "KeyList"
    /\ \E key \in Pressed(app) : KeyEvent(HandleKeyList(app, store, key), key)

KeyDetailEvent ==
    /\ app.state = "KeyDetail"
    /\ \E key \in Pressed(app) : KeyEvent(HandleKeyDetail(app, store, key), key)

CreateWizardEvent ==
    /\ app.state = "CreateWizard"
    /\ \E key \in Pressed(app) : KeyEvent(HandleCreateWizard(app, store, key), key)

DeleteConfirmEvent ==
    /\ app.state = "DeleteConfirm"
    /\ \E key \in Pressed(app) : KeyEvent(HandleDeleteConfirm(app, store, key), key)

MessageDialogEvent ==
    /\ app.state = "MessageDialog"
    /\ \E key \in Pressed(app) : KeyEvent(HandleMessageDialog(app, store, key), key)

\* KeyGenerator::generate called on the directory
CallGenerate ==
    /\ \E options \in KeyGenOptionsSet, seed \in Seeds :
          LET g == Generate(store, options, seed)
          IN  /\ store' = g.fs
              /\ call' = GenRecord(options, store, IF g.ok THEN "Ok" ELSE g.err)
    /\ UNCHANGED <<app, backupVars>>

\* App::select_key called with an index
CallSelectKey ==
    /\ app.state = "KeyList"
    /\ \E index \in 0..(Len(app.keys) + 1) :
          /\ app' = SelectKey(app, index)
          /\ call' = CallRecord("select_key", index, app, "")
    /\ UNCHANGED <<store, backupVars>>

\* App::refresh_keys called
CallRefreshKeys ==
    /\ app.state = "KeyList"
    /\ \E keys \in Scan(store) : app' = RefreshKeys(app, keys)
    /\ call' = CallRecord("refresh_keys", "", app, "")
    /\ UNCHANGED <<store, backupVars>>

\* App::next_key called
CallNextKey ==
    /\ app.state = "KeyList"
    /\ app' = NextKey(app)
    /\ call' = CallRecord("next_key", "", app, "")
    /\ UNCHANGED <<store, backupVars>>

\* App::previous_key called
CallPreviousKey ==
    /\ app.state = "KeyList"
    /\ app' = PreviousKey(app)
    /\ call' = CallRecord("previous_key", "", app, "")
    /\ UNCHANGED <<store, backupVars>>

\* App::wizard_next called
CallWizardNext ==
    /\ app.state = "CreateWizard"
    /\ LET r == WizardNext(app)
       IN  /\ app' = r.app
           /\ call' = CallRecord("wizard_next", "", app,
                                 IF r.ret THEN "true" ELSE "false")
    /\ UNCHANGED <<store, backupVars>>

\* App::wizard_previous called
CallWizardPrevious ==
    /\ app.state = "CreateWizard"
    /\ app' = WizardPrevious(app)
    /\ call' = CallRecord("wizard_previous", "", app, "")
    /\ UNCHANGED <<store, backupVars>>

\* a private key file of the directory is deleted from outside the program
FileDeleted ==
    /\ \E p \in KeyFiles(store) : store' = RemoveFile(store, p)
    /\ call' = Deleted
    /\ UNCHANGED <<app, backupVars>>

NextTui ==
    \/ KeyListEvent
    \/ KeyDetailEvent
    \/ CreateWizardEvent
    \/ DeleteConfirmEvent
    \/ MessageDialogEvent
    \/ CallSelectKey
    \/ CallRefreshKeys
    \/ CallNextKey
    \/ CallPreviousKey
    \/ CallWizardNext
    \/ CallWizardPrevious
    \/ FileDeleted

SpecTui == InitTui /\ [][NextTui]_vars

InitGen ==
    /\ BackupAtRest
    /\ store \in GenStores
    /\ app = NoApp
    /\ call = NoCall

NextGen ==
    \/ CallGenerate
    \/ FileDeleted

SpecGen == InitGen /\ [][NextGen]_vars

\* handle_key_event: the handler of the state the App is in
HandleKeyEvent(a, fs, key) ==
    CASE a.state = "KeyList" -> HandleKeyList(a, fs, key)
      [] a.state = "KeyDetail" -> HandleKeyDetail(a, fs, key)
      [] a.state = "CreateWizard" -> HandleCreateWizard(a, fs, key)
      [] a.state = "DeleteConfirm" -> HandleDeleteConfirm(a, fs, key)
      [] a.state = "MessageDialog" -> HandleMessageDialog(a, fs, key)
      [] OTHER -> {Handled(a, fs)}

\* the user presses one key and the event loop handles it
Press(key) ==
    /\ app.state # "Quit"
    /\ key \in Pressed(app)
    /\ KeyEvent(HandleKeyEvent(app, store, key), key)

\* the wizard is at a step with this text in its input line
WizardAt(step, input) ==
    /\ app.state = "CreateWizard"
    /\ GetWizardStep(app) = Some(step)
    /\ app.wizard_input = input

\* a key of the key list other than those that quit: run_app leaves its loop
\* once the App is in the state Quit, and the user of this session stays
KeyListStay ==
    /\ KeyListEvent
    /\ app'.state # "Quit"

NextKeys ==
    \/ KeyListStay
    \/ KeyDetailEvent
    \/ CreateWizardEvent
    \/ DeleteConfirmEvent
    \/ MessageDialogEvent

\* the text in the input line passes CreateWizard::set_filename
ValidFilename(input) == input # <<>> /\ ~HasSeparator(input)

\* what a user who wants a key with a passphrase does, again and again, in
\* each situation: open the wizard from the key list, choose a type, bring the
\* file name to one the wizard takes and press Enter, type a passphrase and
\* press Enter, dismiss a message, leave the other screens, and start over
\* from the step Confirm
UserInsists ==
    /\ WF_vars(NextKeys)
    /\ WF_vars(app.state = "KeyDetail" /\ Press("Esc"))
    /\ WF_vars(app.state = "DeleteConfirm" /\ Press("Esc"))
    /\ WF_vars(app.state = "MessageDialog" /\ Press("Enter"))
    /\ SF_vars(app.state = "KeyList" /\ Press("n"))
    /\ SF_vars(WizardAt("SelectType", <<>>) /\ Press("1"))
    /\ SF_vars(WizardAt("EnterFilename", <<>>) /\ Press("a"))
    /\ SF_vars(WizardAt("EnterFilename", <<"/">>) /\ Press("Backspace"))
    /\ SF_vars(app.state = "CreateWizard" /\ GetWizardStep(app) = Some("EnterFilename")
                  /\ ValidFilename(app.wizard_input) /\ Press("Enter"))
    /\ SF_vars(WizardAt("EnterPassphrase", <<>>) /\ Press("a"))
    /\ SF_vars(app.state = "CreateWizard" /\ GetWizardStep(app) = Some("EnterPassphrase")
                  /\ app.wizard_input # <<>> /\ Press("Enter"))
    /\ SF_vars(app.state = "CreateWizard" /\ GetWizardStep(app) = Some("Confirm")
                  /\ Press("Esc"))

SpecKeys == InitTui /\ [][NextKeys]_vars /\ UserInsists

---------------------------------------------------------------------------
(* Vocabulary of the properties *)

\* the entries of the container the running import was given
ContainerKeys == LoadBackup(backup, opts.passphrase).keys

Elems(seq) == {seq[i] : i \in 1..Len(seq)}

ErrorNames(rep) == {rep.errors[i][1] : i \in 1..Len(rep.errors)}

RealRunDone == pc = "done" /\ ~opts.dry_run

\* path p holds a regular file with these bytes
HoldsBytes(fs, p, data) ==
    /\ PathExists(fs, p)
    /\ fs[p].kind = "file"
    /\ fs[p].data = data

\* whatever was at path p in fs0 is still there, unchanged, in fs
Untouched(fs0, fs, p) ==
    PathExists(fs0, p) => (PathExists(fs, p) /\ fs[p] = fs0[p])

NoDirectories(fs) == \A p \in DOMAIN fs : fs[p].kind = "file"

NamesUnique(keys) ==
    \A i, j \in 1..Len(keys) : i # j => keys[i].name # keys[j].name

\* a name of the real run against the name the dry run reports for it
MatchesDryRunName(real, dry) ==
    \/ real = dry
    \/ \E n \in Names, ts \in Timestamps :
          dry = RenamePattern(n) /\ real = RenamedName(n, ts)

SameBuckets(real, dry) ==
    /\ real.skipped = dry.skipped
    /\ real.overwritten = dry.overwritten
    /\ Len(real.imported) = Len(dry.imported)
    /\ \A i \in 1..Len(real.imported) :
          MatchesDryRunName(real.imported[i], dry.imported[i])

\* a path whose extension is "pub": the path of a public half
IsPubPath(p) == Len(p) >= 3 /\ p[Len(p) - 1] = "." /\ p[Len(p)] = "pub"

\* path p is in fs what it was in fs0: absent in both, or the same file
SameAt(fs0, fs, p) ==
    /\ PathExists(fs0, p) <=> PathExists(fs, p)
    /\ PathExists(fs, p) => fs[p] = fs0[p]

\* the name the latest iteration writes the entry under
TargetName ==
    IF EntryExists(last.store, last.entry.name) /\ opts.merge_strategy = "Rename"
    THEN RenamedName(last.entry.name, last.ts)
    ELSE last.entry.name

\* the j-th smallest member of a set of numbers
Nth(S, j) == CHOOSE x \in S : Cardinality({y \in S : y < x}) = j - 1

\* what a report may call an entry of this name
ReportedAs(name, reported) ==
    \/ reported = name
    \/ reported = RenamePattern(name)
    \/ \E ts \in Timestamps : reported = RenamedName(name, ts)

\* the names of list are the names of the entries keys[i], i in S, in the
\* order of the indices
ListsInOrder(list, keys, S) ==
    /\ Len(list) = Cardinality(S)
    /\ \A j \in 1..Len(list) : ReportedAs(keys[Nth(S, j)].name, list[j])

\* the place of index i among the indices S
Pos(S, i) == Cardinality({y \in S : y <= i})

\* the number of outcomes a report holds
Recorded(rep) ==
    Len(rep.imported) + Len(rep.skipped) + Len(rep.overwritten) + Len(rep.errors)

---------------------------------------------------------------------------
(* C1 -- Round trip.  Exporting a list of key records with unique names     *)
(* under the default options and importing the container, not as a dry run, *)
(* with the same passphrase into an empty store reports every record under  *)
(* imported, nothing under skipped or errors, and leaves each half a record *)
(* had in the source directory in the store with the same bytes.            *)
C1_RoundTrip ==
    ( /\ RealRunDone
      /\ exported.done
      /\ exported.options = DefaultExportOptions
      /\ NamesUnique(exported.keys)
      /\ store0 = <<>> )
    => /\ Len(report.imported) = Len(exported.keys)
       /\ report.skipped = <<>>
       /\ report.errors = <<>>
       /\ \A i \in 1..Len(exported.keys) :
             LET key == exported.keys[i]
             IN  /\ PathExists(src, key.path)
                      => HoldsBytes(store, key.name, src[key.path].data)
                 /\ PathExists(src, key.public_path)
                      => HoldsBytes(store, WithExtension(key.name, "pub"),
                                    src[key.public_path].data)

---------------------------------------------------------------------------
(* C2 -- Wrong passphrase fails closed.  An import of a container that was  *)
(* encrypted under one passphrase, called with another, returns the         *)
(* InvalidPassphrase error, builds no report, processes no entry and leaves *)
(* the store as it was, whatever the strategy and the dry_run flag.         *)
C2_WrongPassphraseFailsClosed ==
    ( /\ pc # "idle"
      /\ backup.kind = "age"
      /\ opts.passphrase # backup.passphrase )
    => /\ pc = "failed"
       /\ result = "InvalidPassphrase"
       /\ report = EmptyReport
       /\ queue = <<>>
       /\ ~last.acted
       /\ store = store0

C2_Witness ==
    /\ pc = "failed"
    /\ result = "InvalidPassphrase"
    /\ backup.kind = "age"
    /\ exported.done
    /\ Len(backup.body.keys) > 0
    /\ opts.merge_strategy = "Overwrite"
    /\ ~opts.dry_run
    /\ PathExists(store, <<"k">>)

---------------------------------------------------------------------------
(* C3 -- Dry run predicts the real run.  When a real import has returned    *)
(* without recording an error, its skipped and overwritten lists equal the  *)
(* ones the dry-run loop computes for the same container, strategy and      *)
(* starting store, and its imported list matches entry by entry, a renamed  *)
(* entry being reported as the derived-name pattern by the dry run.  It is  *)
(* stated for stores that hold regular files only.                          *)
C3_DryRunPredictsRealRun ==
    (RealRunDone /\ report.errors = <<>> /\ NoDirectories(store0))
    => SameBuckets(report,
                   DryRunReport(store0, ContainerKeys, opts.merge_strategy, EmptyReport))

---------------------------------------------------------------------------
(* C4 -- Dry run is side-effect-free.  From the call of a dry-run import to *)
(* its return the store is what it was when the import was called: no file  *)
(* is created, modified or deleted.                                         *)
C4_DryRunLeavesStore ==
    (pc # "idle" /\ opts.dry_run) => store = store0

C4_Witness ==
    /\ pc = "done"
    /\ opts.dry_run
    /\ Len(ContainerKeys) = 2
    /\ report.overwritten # <<>>
    /\ report.imported # <<>>
    /\ store = store0

---------------------------------------------------------------------------
(* C5 -- Skip never overwrites.  When a real import under SkipExisting has  *)
(* returned, every entry whose name the store already had when the import   *)
(* was called (private or public file) is reported under skipped and under  *)
(* no other list, and what the store had at that name is unchanged.         *)
C5_SkipNeverOverwrites ==
    (RealRunDone /\ opts.merge_strategy = "SkipExisting")
    => \A i \in 1..Len(ContainerKeys) :
          LET K == ContainerKeys[i].name
          IN  EntryExists(store0, K)
              => /\ Untouched(store0, store, K)
                 /\ Untouched(store0, store, WithExtension(K, "pub"))
                 /\ K \in Elems(report.skipped)
                 /\ K \notin Elems(report.imported)
                 /\ K \notin Elems(report.overwritten)
                 /\ K \notin ErrorNames(report)

C5_Witness ==
    /\ RealRunDone
    /\ opts.merge_strategy = "SkipExisting"
    /\ HoldsBytes(store0, <<"k">>, "old_priv")
    /\ \E i \in 1..Len(ContainerKeys) :
          /\ ContainerKeys[i].name = <<"k">>
          /\ ContainerKeys[i].private_key = Some("priv_k")
    /\ report.skipped # <<>>
    /\ HoldsBytes(store, <<"k">>, "old_priv")

---------------------------------------------------------------------------
(* The iteration the real loop has just made, and its entry *)

RealStep == pc \in {"loop", "done"} /\ ~opts.dry_run /\ last.acted

\* a regular file is at the private or at the public path of name
HasKeyFile(fs, name) ==
    \/ PathExists(fs, name) /\ ~IsDir(fs, name)
    \/ PathExists(fs, WithExtension(name, "pub"))
          /\ ~IsDir(fs, WithExtension(name, "pub"))

\* no path a present half of the entry is written to under name is a directory
WritesCanSucceed(fs, name, entry) ==
    /\ IsSome(entry.private_key) => ~IsDir(fs, name)
    /\ IsSome(entry.public_key) => ~IsDir(fs, WithExtension(name, "pub"))

\* the present halves of the entry are in the files of name, byte for byte
HalvesWritten(fs, name, entry) ==
    /\ IsSome(entry.private_key)
          => HoldsBytes(fs, name, Unwrap(entry.private_key))
    /\ IsSome(entry.public_key)
          => HoldsBytes(fs, WithExtension(name, "pub"), Unwrap(entry.public_key))

---------------------------------------------------------------------------
---------------------------------------------------------------------------
(* C7 -- Rename never collides with the original.  After the real loop has  *)
(* processed, under Rename and without a write failing, an entry whose name *)
(* K a store of regular files had, the private and the public file of K are *)
(* what they were, the entry's halves are in the files of a derived name    *)
(* different from K, and that name has been added to imported.              *)
C7_RenameKeepsOriginal ==
    ( /\ RealStep
      /\ opts.merge_strategy = "Rename"
      /\ NoDirectories(last.store)
      /\ EntryExists(last.store, last.entry.name)
      /\ last.tag # "Err" )
    => /\ Untouched(last.store, store, last.entry.name)
       /\ Untouched(last.store, store, WithExtension(last.entry.name, "pub"))
       /\ last.name # last.entry.name
       /\ HalvesWritten(store, last.name, last.entry)
       /\ report = [last.report EXCEPT !.imported = Append(@, last.name)]

---------------------------------------------------------------------------
(* C8 -- Existence test.  In an iteration of either loop, over a store of   *)
(* regular files, the entry is plainly imported (reported under imported    *)
(* with its own name) exactly when the store has neither the private nor    *)
(* the public file of its name; otherwise it is skipped, overwritten or     *)
(* renamed.                                                                 *)
C8_ExistenceTest ==
    (pc \in {"loop", "done"} /\ last.acted /\ NoDirectories(last.store))
    => ( (last.tag = "Imported" /\ last.name = last.entry.name)
         <=> ~( \/ PathExists(last.store, last.entry.name)
                \/ PathExists(last.store, WithExtension(last.entry.name, "pub")) ) )

---------------------------------------------------------------------------
(* C9 -- Per-entry failure isolation.  When import_entry has failed on an   *)
(* entry of a real import, the import has not failed: the pair of the       *)
(* entry's name and the message is the one addition to the report, the      *)
(* entries after it are still queued in container order, the loop goes on   *)
(* while any is left and returns Ok once none is.                           *)
C9_FailureIsolation ==
    (RealStep /\ last.tag = "Err")
    => /\ last.err # ""
       /\ report = [last.report EXCEPT
                        !.errors = Append(@, <<last.entry.name, last.err>>)]
       /\ queue = SubSeq(ContainerKeys, Recorded(report) + 1, Len(ContainerKeys))
       /\ pc = (IF queue = <<>> THEN "done" ELSE "loop")
       /\ result = (IF queue = <<>> THEN "Ok" ELSE "none")

C9_Witness ==
    /\ RealRunDone
    /\ result = "Ok"
    /\ Len(ContainerKeys) = 2
    /\ Len(report.errors) = 1
    /\ report.errors[1][1] = ContainerKeys[1].name
    /\ last.tag = "Imported"
    /\ last.entry = ContainerKeys[2]

---------------------------------------------------------------------------
(* C10 -- Every entry gets exactly one terminal outcome.  Each iteration of *)
(* either loop adds one element to exactly one of the four lists, and when  *)
(* import returns its report the four lengths add up to the number of       *)
(* entries of the container.                                                *)
C10_OneOutcomePerEntry ==
    /\ (pc \in {"loop", "done"} /\ last.acted)
          => Recorded(report) = Recorded(last.report) + 1
    /\ pc \in {"loop", "done"}
          => Recorded(report) + Len(queue) = Len(ContainerKeys)
    /\ pc = "done"
          => (queue = <<>> /\ Recorded(report) = Len(ContainerKeys))

C10_Witness ==
    /\ pc = "done"
    /\ Len(ContainerKeys) = 2
    /\ Len(report.skipped) = 1
    /\ Len(report.imported) = 1

---------------------------------------------------------------------------
(* C11 -- Failures before the first entry are fatal and leave no partial    *)
(* state.  When the container file is absent, is not an age envelope, or    *)
(* decrypts to a plaintext that serde_json rejects, import returns an error,*)
(* builds no report, processes no entry and leaves the store as it was; and *)
(* the store differs from the store at the call only when the file was read,*)
(* decrypted and decoded.                                                   *)
C11_PreEntryFailuresAreFatal ==
    /\ ( /\ pc # "idle"
         /\ \/ backup.kind # "age"
            \/ backup.body \in UndecodablePayloads )
       => /\ pc = "failed"
          /\ result \in {"Io", "Encryption", "InvalidPassphrase", "ImportExport"}
          /\ report = EmptyReport
          /\ queue = <<>>
          /\ ~last.acted
          /\ store = store0
    /\ (pc # "idle" /\ backup.kind = "absent") => result = "Io"
    /\ (pc # "idle" /\ backup.kind = "garbage") => result = "Encryption"
    /\ ( /\ pc # "idle"
         /\ backup.kind = "age"
         /\ backup.passphrase = opts.passphrase
         /\ backup.body \in UndecodablePayloads )
       => result = "ImportExport"
    /\ (store # store0 \/ last.acted)
       => /\ backup.kind = "age"
          /\ backup.passphrase = opts.passphrase
          /\ backup.body \notin UndecodablePayloads

C11_Witness ==
    /\ pc = "failed"
    /\ result = "ImportExport"
    /\ backup.kind = "age"
    /\ backup.body = NotJson
    /\ opts.merge_strategy = "Overwrite"
    /\ ~opts.dry_run
    /\ PathExists(store, <<"k">>)
    /\ store = store0

---------------------------------------------------------------------------
(* C12 -- An unsupported schema version is rejected.  An import that        *)
(* decrypts a container whose plaintext decodes and whose metadata.version  *)
(* is greater than BACKUP_VERSION returns the ImportExport error, processes *)
(* no entry of that container and leaves the store as it was.               *)
C12_NewerVersionRejected ==
    ( /\ pc # "idle"
      /\ backup.kind = "age"
      /\ backup.passphrase = opts.passphrase
      /\ backup.body \notin UndecodablePayloads
      /\ backup.body.metadata.version > BACKUP_VERSION )
    => /\ pc = "failed"
       /\ result = "ImportExport"
       /\ ~last.acted
       /\ store = store0

---------------------------------------------------------------------------
(* C13 -- Export is all-or-nothing.  After an export that returned an error,*)
(* whichever step failed, the destination path does not hold a partially    *)
(* written file.                                                            *)
C13_ExportAllOrNothing ==
    exportResult \notin {"none", "Ok"} => backup.kind # "partial"

---------------------------------------------------------------------------
(* C14 -- Decrypt failure kinds are never confused.  Decrypting an age      *)
(* envelope with a wrong passphrase, or an envelope that was altered, fails *)
(* with InvalidPassphrase; decrypting bytes that are no age envelope fails  *)
(* with Encryption; and the Encryption error is returned for nothing that   *)
(* is an age envelope.                                                      *)
C14_FailureKindsNotConfused ==
    /\ ( /\ pc # "idle"
         /\ backup.kind = "age"
         /\ (backup.passphrase # opts.passphrase \/ backup.damage # "none") )
       => result = "InvalidPassphrase"
    /\ (pc # "idle" /\ backup.kind \in {"garbage", "partial"})
       => result = "Encryption"
    /\ (pc # "idle" /\ result = "Encryption") => backup.kind # "age"
    /\ (pc # "idle" /\ result = "InvalidPassphrase") => backup.kind = "age"

---------------------------------------------------------------------------
(* C15 -- The selection filter is exact.  The container an export wrote     *)
(* holds exactly one entry for each input record whose name is in           *)
(* selected_keys, in input order, and no other entry; without a selection   *)
(* it holds one entry for every input record; and an export fails only for  *)
(* a file it cannot read or a destination it cannot write, never for a name *)
(* of the selection that no record has.                                     *)
C15_SelectionExact ==
    /\ exported.done =>
          LET entries == backup.body.keys
              keys    == exported.keys
              sel     == exported.options.selected_keys
              wanted  == {j \in 1..Len(keys) :
                             ~IsSome(sel) \/ keys[j].name \in Unwrap(sel)}
          IN  /\ \E f \in [1..Len(entries) -> 1..Len(keys)] :
                    /\ \A i, j \in 1..Len(entries) : i < j => f[i] < f[j]
                    /\ {f[i] : i \in 1..Len(entries)} = wanted
                    /\ \A i \in 1..Len(entries) : entries[i].name = keys[f[i]].name
              /\ ~IsSome(sel) => Len(entries) = Len(keys)
    /\ exportResult = "Io"
          => (~NoDirectories(src) \/ backup.kind \in {"dir", "noparent", "partial"})

C15_Witness ==
    /\ exported.done
    /\ exported.options.selected_keys = Some({<<"k">>, <<"z">>})
    /\ Len(exported.keys) = 2
    /\ exported.keys[1].name = <<"k", ".", "b">>
    /\ exported.keys[2].name = <<"k">>
    /\ Len(backup.body.keys) = 1
    /\ backup.body.keys[1].name = <<"k">>

---------------------------------------------------------------------------
(* C16 -- Public-only omits secrets.  Every entry of a container that was   *)
(* exported with include_public_only has no private_key, whatever private   *)
(* files the source directory holds, and during and after an import of that *)
(* container every file of the store that is not a .pub file is the file    *)
(* that was there when the import was called: none is created, none is      *)
(* modified, none is removed.                                               *)
C16_PublicOnlyOmitsSecrets ==
    (exported.done /\ exported.options.include_public_only)
    => /\ \A i \in 1..Len(backup.body.keys) : backup.body.keys[i].private_key.isNull
       /\ \A i \in 1..Len(ContainerKeys) : ~IsSome(ContainerKeys[i].private_key)
       /\ \A p \in (DOMAIN store) \cup (DOMAIN store0) :
             ~IsPubPath(p) => /\ PathExists(store0, p)
                              /\ PathExists(store, p)
                              /\ store[p] = store0[p]

C16_Witness ==
    /\ RealRunDone
    /\ exported.done
    /\ exported.options.include_public_only
    /\ opts.merge_strategy = "Overwrite"
    /\ Len(exported.keys) = 1
    /\ exported.keys[1].name = <<"k">>
    /\ PathExists(src, <<"k">>)
    /\ report.overwritten = << <<"k">> >>
    /\ HoldsBytes(store, <<"k">>, "old_priv")
    /\ HoldsBytes(store, <<"k", ".", "pub">>, "pub_k")

---------------------------------------------------------------------------
C17_WitnessPrivateOnly ==
    /\ RealStep
    /\ last.tag = "Imported"
    /\ last.entry.private_key = Some("priv_k")
    /\ ~IsSome(last.entry.public_key)
    /\ HoldsBytes(store, <<"k">>, "priv_k")
    /\ ~PathExists(store, <<"k", ".", "pub">>)

---------------------------------------------------------------------------
---------------------------------------------------------------------------
(* C19 -- Report order matches container order.  While and after import     *)
(* runs its loop, the entries still to be processed are a suffix of the     *)
(* container, the report holds one outcome for each entry before that       *)
(* suffix, and the processed entries can be assigned to the four lists so   *)
(* that each list names its entries in the order they have in the           *)
(* container; each iteration processes the next entry of the container and  *)
(* appends to the end of a list; and the store is the store at the call     *)
(* until the first entry has been processed.                                *)
C19_ReportOrderMatchesContainer ==
    pc \in {"loop", "done"} =>
       LET keys == ContainerKeys
           n    == Len(keys) - Len(queue)
       IN  /\ n = Recorded(report)
           /\ queue = SubSeq(keys, n + 1, Len(keys))
           /\ \E b \in [1..n -> {"imported", "skipped", "overwritten", "errors"}] :
                 LET At(list) == {i \in 1..n : b[i] = list}
                 IN  /\ ListsInOrder(report.imported, keys, At("imported"))
                     /\ ListsInOrder(report.skipped, keys, At("skipped"))
                     /\ ListsInOrder(report.overwritten, keys, At("overwritten"))
                     /\ ListsInOrder([i \in 1..Len(report.errors) |-> report.errors[i][1]],
                                     keys, At("errors"))
           /\ last.acted
                 => /\ n >= 1
                    /\ last.entry = keys[n]
                    /\ Recorded(last.report) = n - 1
                    /\ \A f \in {"imported", "skipped", "overwritten", "errors"} :
                          SubSeq(report[f], 1, Len(last.report[f])) = last.report[f]
           /\ n = 0 => (store = store0 /\ ~last.acted)

C19_Witness ==
    /\ RealRunDone
    /\ Len(ContainerKeys) = 2
    /\ ContainerKeys[1].name = <<"k", ".", "b">>
    /\ ContainerKeys[2].name = <<"k">>
    /\ report.imported = << <<"k", ".", "b">>, <<"k">> >>
    /\ HoldsBytes(store, <<"k", ".", "b">>, "priv_kb")
    /\ HoldsBytes(store, <<"k">>, "priv_k")

---------------------------------------------------------------------------
C20_WitnessRename ==
    /\ RealStep
    /\ opts.merge_strategy = "Rename"
    /\ last.store = <<>>
    /\ last.entry.name = <<"k", ".", "b">>
    /\ last.name = <<"k", ".", "b">>
    /\ HoldsBytes(store, <<"k", ".", "b">>, "priv_kb")

---------------------------------------------------------------------------
(* C21 -- Export creates missing parent directories.  After an export from  *)
(* a source directory whose files can all be read, the destination is not a *)
(* path in a missing directory any more: export has created the directory   *)
(* and written the file (or failed in writing it).                          *)
C21_ExportCreatesParents ==
    (exportResult # "none" /\ NoDirectories(src)) => backup.kind # "noparent"

---------------------------------------------------------------------------
(* C25 -- The report matches the final store.  After an import that was not *)
(* a dry run has returned, the entries of the container can be matched with *)
(* the outcomes of the report, list by list in container order, so that for *)
(* every entry recorded under imported or overwritten the store holds the   *)
(* present halves of that entry, byte for byte, under the name the report   *)
(* gives it.                                                                *)
C25_ReportMatchesStore ==
    RealRunDone =>
       LET keys == ContainerKeys
           n    == Len(keys)
       IN  \E b \in [1..n -> {"imported", "skipped", "overwritten", "errors"}] :
              LET At(list) == {i \in 1..n : b[i] = list}
              IN  /\ ListsInOrder(report.imported, keys, At("imported"))
                  /\ ListsInOrder(report.skipped, keys, At("skipped"))
                  /\ ListsInOrder(report.overwritten, keys, At("overwritten"))
                  /\ ListsInOrder([i \in 1..Len(report.errors) |-> report.errors[i][1]],
                                  keys, At("errors"))
                  /\ \A i \in At("imported") :
                        HalvesWritten(store,
                            report.imported[Pos(At("imported"), i)], keys[i])
                  /\ \A i \in At("overwritten") :
                        HalvesWritten(store,
                            report.overwritten[Pos(At("overwritten"), i)], keys[i])

---------------------------------------------------------------------------
(* C26 -- Distinct names use disjoint files.  The files of a key named N    *)
(* are N and N.pub, the name with ".pub" appended, also when N has a dot;   *)
(* an iteration of the importing loop creates or modifies no path of the    *)
(* store but the two files of the name it writes the entry under.           *)
C26_DistinctNamesDisjointFiles ==
    RealStep =>
       \A p \in (DOMAIN store) \cup (DOMAIN last.store) :
          p \notin {TargetName, TargetName \o <<".", "pub">>}
          => SameAt(last.store, store, p)

---------------------------------------------------------------------------
(* C27 -- A failed entry leaves no trace.  After an iteration of the         *)
(* importing loop that recorded its entry under errors, the store is what   *)
(* it was before the iteration.                                             *)
C27_FailedEntryLeavesNoTrace ==
    (RealStep /\ last.tag = "Err") => store = last.store

---------------------------------------------------------------------------
(* C29 -- SkipExisting only adds files.  While and after an import under    *)
(* SkipExisting that is not a dry run, every path the store had when the    *)
(* import began holds what it held then, and every path an iteration of the *)
(* loop changed did not exist before that iteration (so it did not exist    *)
(* when the import began, and no entry rewrites what an earlier one wrote). *)
C29_SkipExistingOnlyAdds ==
    ( /\ pc \in {"loop", "done"}
      /\ ~opts.dry_run
      /\ opts.merge_strategy = "SkipExisting" )
    => /\ \A p \in DOMAIN store0 : PathExists(store, p) /\ store[p] = store0[p]
       /\ last.acted =>
             \A p \in DOMAIN last.store :
                PathExists(store, p) /\ store[p] = last.store[p]

\* the store had the private file of k and nothing else; the entry k was
\* skipped and the entry k.b was imported beside it
C29_Witness ==
    /\ RealRunDone
    /\ opts.merge_strategy = "SkipExisting"
    /\ store0 = (<<"k">> :> RegularFile("old_priv", CreateMode))
    /\ report.skipped = << <<"k">> >>
    /\ report.imported = << <<"k", ".", "b">> >>
    /\ HoldsBytes(store, <<"k">>, "old_priv")
    /\ HoldsBytes(store, <<"k", ".", "b">>, "priv_kb")
    /\ store # store0

\* the container has two entries of the same name: the second is skipped
\* and the files of the first stay
C29_WitnessRepeatedName ==
    /\ RealRunDone
    /\ opts.merge_strategy = "SkipExisting"
    /\ backup = DuplicateContainer
    /\ store0 = <<>>
    /\ report.imported = << <<"k">> >>
    /\ report.skipped = << <<"k">> >>
    /\ HoldsBytes(store, <<"k">>, "priv_k")

---------------------------------------------------------------------------
(* C28 -- Re-import under SkipExisting is idempotent.  When an import that  *)
(* was not a dry run has returned a report without errors, under any        *)
(* strategy, and the same container is imported again under SkipExisting,   *)
(* the second import reports every entry under skipped, nothing under       *)
(* imported, overwritten or errors, and leaves the store unchanged.         *)
C28_ReimportIdempotent ==
    (prev.done /\ pc = "done")
    => /\ report.imported = <<>>
       /\ report.overwritten = <<>>
       /\ report.errors = <<>>
       /\ report.skipped = [i \in 1..Len(ContainerKeys) |-> ContainerKeys[i].name]
       /\ store = store0

---------------------------------------------------------------------------
(* C22 -- Generating a duplicate key fails without damage.  A call of       *)
(* KeyGenerator::generate with a filename whose private key file exists in  *)
(* the directory returns KeyAlreadyExists and leaves the directory, the     *)
(* private and the public file included, as it was; and after a call that   *)
(* succeeded, a call with the same options returns KeyAlreadyExists and     *)
(* changes nothing, whatever key pair it would have drawn.                  *)
C22_DuplicateGenerateFails ==
    /\ (call.op = "generate" /\ PathExists(call.fs, call.options.filename))
          => (call.ret = "KeyAlreadyExists" /\ store = call.fs)
    /\ (call.op = "generate" /\ call.ret = "Ok")
          => \A seed \in Seeds :
                Generate(store, call.options, seed) = IoErr(store, "KeyAlreadyExists")

\* the key a was generated by an earlier call and the latest call, for the
\* same filename, was refused
C22_Witness ==
    /\ call.op = "generate"
    /\ call.options.filename = <<"a">>
    /\ call.options.key_type = "Ed25519"
    /\ call.ret = "KeyAlreadyExists"
    /\ HoldsBytes(call.fs, <<"a">>, "new_priv_1")
    /\ HoldsBytes(store, <<"a">>, "new_priv_1")
    /\ HoldsBytes(store, <<"a", ".", "pub">>, "new_pub_1 user@host")
    /\ store = call.fs

---------------------------------------------------------------------------
(* C23 -- The create wizard advances one step at a time.  After a call of   *)
(* App::wizard_next that returned true at a step before Confirm, the wizard *)
(* is at the step that follows the one it was at in the order SelectType,   *)
(* EnterFilename, EnterComment, EnterPassphrase, Confirm; from              *)
(* EnterFilename it is at EnterComment.                                     *)
C23_WizardAdvancesOneStep ==
    ( /\ call.op = "wizard_next"
      /\ call.ret = "true"
      /\ call.step # Some("Confirm") )
    => GetWizardStep(app) = Some(StepAfter(Unwrap(call.step)))

---------------------------------------------------------------------------
(* C24 -- Key-list navigation wraps and stays in range.  With n > 0 keys in *)
(* the list, next_key moves the selected index i to (i + 1) mod n and       *)
(* previous_key to (i - 1) mod n; and whatever was called or pressed, and   *)
(* whatever was deleted before a refresh, the selected index is below the   *)
(* number of keys whenever the key list is not empty.                       *)
C24_NavigationInRange ==
    /\ app.keys # <<>> => app.selected_index < Len(app.keys)
    /\ (call.op = "next_key" /\ call.count > 0)
          => app.selected_index = (call.index + 1) % call.count
    /\ (call.op = "previous_key" /\ call.count > 0)
          => app.selected_index = (call.index + call.count - 1) % call.count

\* next_key has wrapped from the last of two keys to the first
C24_Witness ==
    /\ call.op = "next_key"
    /\ call.count = 2
    /\ call.index = 1
    /\ app.selected_index = 0
    /\ Len(app.keys) = 2

\* previous_key has wrapped from the first of two keys to the last
C24_WitnessPrevious ==
    /\ call.op = "previous_key"
    /\ call.count = 2
    /\ call.index = 0
    /\ app.selected_index = 1

\* the last of two keys was selected, a key file was deleted, and the
\* refresh has moved the selection to the one key that is left
C24_WitnessRefresh ==
    /\ call.op = "refresh_keys"
    /\ call.count = 2
    /\ call.index = 1
    /\ Len(app.keys) = 1
    /\ app.selected_index = 0

\* the wizard shows the step Confirm and its options hold a passphrase
PassphraseStored ==
    /\ GetWizardStep(app) = Some("Confirm")
    /\ IsSome(Unwrap(app.wizard).options.passphrase)

\* C30: starting from the key list, a user who types a passphrase at the step
\* EnterPassphrase eventually has the wizard at the step Confirm with that
\* non-empty passphrase stored in its options
C30_PassphraseCanBeSet == <>PassphraseStored

\* no key event and no call of the App ever stores a passphrase
C30_PassphraseNeverStored ==
    IsSome(app.wizard) => ~IsSome(Unwrap(app.wizard).options.passphrase)

\* the user has typed a passphrase at EnterPassphrase, pressed Enter, and the
\* wizard has refused it
C30_Rejected ==
    /\ app.state = "MessageDialog"
    /\ GetWizardStep(app) = Some("EnterPassphrase")
    /\ app.wizard_input # <<>>
    /\ GetWizardError(app) = Some("Passphrases do not match")

====
